---- MODULE Spec2Model ----
(***************************************************************************)
(* Voting ledger of src/votinga1.py: Block / Blockchain (hashing, mining,  *)
(* append, validation) and the VotingApp menu operations on top of it.     *)
(*                                                                         *)
(* Strings are sequences of one-character strings.  A digest string is a    *)
(* record [hex, of]: hex is the sequence of digits that startswith() reads, *)
(* of is the byte string that was digested (<<>> for a literal such as ""  *)
(* or "0").  Two digests are the same string exactly when both parts agree: *)
(* SHA-256 is taken to be collision free, and its digits are a rolling     *)
(* checksum of the serialized bytes.                                       *)
(***************************************************************************)
EXTENDS Integers, Sequences, FiniteSets, TLC

\* ------------------------------------------------------------------ bounds
\* digits of a digest (64 in the program)
HashLen == 3
\* distinct digit characters of a digest (16 in the program)
DigitBase == 2
\* blocks in a chain, genesis included
MaxChain == 3
\* time.time() returns a value of 1..MaxTime
MaxTime == 1
Modulus == DigitBase ^ HashLen
\* the nonce a caller may put in a block handed to add_block
StartNonces == {0, 1}
\* every nonce up to NonceCap is kept exactly
NonceCap == 2 * Modulus + 1
Times == 1..MaxTime
\* negative, none, some, all the digits of a digest, more than a digest has
Difficulties == {0 - 1, 0, 1, HashLen, HashLen + 1}

\* ------------------------------------------------------------------ strings
Str0 == [hex |-> <<0>>, of |-> <<>>]
StrEmpty == [hex |-> <<>>, of |-> <<>>]

\* "0" * n
Zeros(n) == [i \in 1..n |-> 0]

\* s.startswith(p)
StartsWith(s, p) == Len(p) <= Len(s.hex) /\ SubSeq(s.hex, 1, Len(p)) = p

IsSpace(c) == c = " "

\* str.strip()
RECURSIVE LStrip(_)
LStrip(s) == IF s # <<>> /\ IsSpace(Head(s)) THEN LStrip(Tail(s)) ELSE s
RECURSIVE RStrip(_)
RStrip(s) ==
    IF s # <<>> /\ IsSpace(s[Len(s)]) THEN RStrip(SubSeq(s, 1, Len(s) - 1)) ELSE s
clean_id(s) == RStrip(LStrip(s))

\* what the user may type at an ID prompt, and at a name prompt
RawIds == {<<>>, <<" ">>, <<"a">>, <<" ", "a">>, <<"b", " ">>}
RawNames == {<<" ">>, <<"n", " ">>}

\* ------------------------------------------------------------------ hashing
Ord(c) == CASE c = " " -> 1 [] c = "a" -> 2 [] c = "b" -> 3 [] OTHER -> 4
Bytes(s) == [i \in 1..Len(s) |-> Ord(s[i])]

Transaction(v, c, ts) == [voter_id |-> v, candidate_id |-> c, timestamp |-> ts]

\* keys in sorted order: candidate_id, timestamp, voter_id
to_dict(t) == <<t.candidate_id, t.timestamp, t.voter_id>>

Block(i, ts, txs, prev, n) ==
    [index |-> i, timestamp |-> ts, transactions |-> txs, previous_hash |-> prev,
     nonce |-> n, hash |-> StrEmpty]

\* json.dumps(block_dict, sort_keys=True): index, nonce, previous_hash,
\* timestamp, transactions; the hash field is not part of it
Canonical(b) ==
    <<b.index, b.nonce, b.previous_hash, b.timestamp,
      [k \in 1..Len(b.transactions) |-> to_dict(b.transactions[k])]>>

RECURSIVE FlatTxs(_)
FlatTxs(ds) ==
    IF ds = <<>> THEN <<>>
    ELSE Bytes(Head(ds)[1]) \o <<Head(ds)[2]>> \o Bytes(Head(ds)[3]) \o FlatTxs(Tail(ds))

\* the serialized fields as a sequence of numbers
Flat(ser) == <<ser[1], ser[2]>> \o ser[3].hex \o <<ser[4]>> \o FlatTxs(ser[5])

Roll(s) ==
    LET f[i \in 0..Len(s)] == IF i = 0 THEN 0 ELSE (f[i - 1] * 5 + s[i]) % Modulus
    IN f[Len(s)]

Digits(n) == [i \in 1..HashLen |-> (n \div (DigitBase ^ (HashLen - i))) % DigitBase]

\* hashlib.sha256(bytes).hexdigest()
Sha256(ser) == [hex |-> Digits(Roll(Flat(ser))), of |-> ser]

compute_hash(b) == Sha256(Canonical(b))

\* ------------------------------------------------------------------ ledger
\* faulty variant: the genesis block built with the default empty string as previous_hash
GenesisEmptyPrev(ts) == Block(0, ts, <<>>, StrEmpty, 0)

\* Blockchain.create_genesis_block, before mining
Genesis(ts) == Block(0, ts, <<>>, Str0, 0)

\* faulty variant: the prefix built one zero short
MinedShort(b, d) == StartsWith(compute_hash(b), Zeros(d - 1))

\* the test of the mining loop: computed_hash.startswith(prefix)
Mined(b, d) == StartsWith(compute_hash(b), Zeros(d))

\* faulty variant: the nonce incremented once more after the hash was stored
CommitThenBump(b) == [b EXCEPT !.hash = compute_hash(b), !.nonce = b.nonce + 1]

\* block.hash = computed_hash
Commit(b) == [b EXCEPT !.hash = compute_hash(b)]

\* faulty variant: a search that steps over every other nonce
BumpTwo(b) ==
    [b EXCEPT !.nonce = IF b.nonce <= NonceCap THEN b.nonce + 2 ELSE NonceCap]

\* block.nonce += 1; nonces above NonceCap are not told apart:
\* they are kept as NonceCap or NonceCap + 1
Bump(b) ==
    [b EXCEPT !.nonce = IF b.nonce <= NonceCap THEN b.nonce + 1 ELSE NonceCap]

\* Blockchain.mine_block as one call; it returns only when a digest can meet d
RECURSIVE mine_block(_, _)
mine_block(b, d) == IF Mined(b, d) THEN Commit(b) ELSE mine_block(Bump(b), d)

\* faulty variant: add_block that trusts the previous_hash the caller put in the block
LinkedKeep(b, c) == b

\* faulty variant: add_block that links every block to the genesis block
LinkedToFirst(b, c) == [b EXCEPT !.previous_hash = c[1].hash]

\* add_block: block.previous_hash = self.last_block.hash
Linked(b, c) == [b EXCEPT !.previous_hash = c[Len(c)].hash]

\* faulty variant: the linkage check made against the block's own hash
LinkOkSelf(c, i) == c[i].previous_hash = c[i].hash

\* faulty variant: the new block put in front
chain_prepend(c, b) == <<b>> \o c

\* self.chain.append(block)
chain_append(c, b) == Append(c, b)

\* the three checks is_chain_valid makes on chain[i], i > 1 (1-based)
LinkOk(c, i) == c[i].previous_hash = c[i - 1].hash
HashOk(b) == compute_hash(b) = b.hash
PowOk(b, d) == StartsWith(b.hash, Zeros(d))

\* faulty variant: the validation without the check of the recomputed hash
ValidNoHash(c, d) ==
    /\ \A i \in 2..Len(c) : LinkOk(c, i) /\ PowOk(c[i], d)
    /\ PowOk(c[1], d)

\* faulty variant: the validation without the check of the linkage
ValidNoLink(c, d) == \A i \in 1..Len(c) : HashOk(c[i]) /\ PowOk(c[i], d)

\* faulty variant: the validation without its last part, the check of the genesis block
ValidSkippingGenesis(c, d) ==
    \A i \in 2..Len(c) : LinkOk(c, i) /\ HashOk(c[i]) /\ PowOk(c[i], d)

is_chain_valid(c, d) ==
    /\ \A i \in 2..Len(c) : LinkOk(c, i) /\ HashOk(c[i]) /\ PowOk(c[i], d)
    /\ HashOk(c[1]) /\ PowOk(c[1], d)

\* ------------------------------------------------------------------ state
VARIABLES
    pc,          \* "new": nothing constructed; "mining": inside mine_block; "ready"
    app,         \* TRUE when the ledger belongs to a VotingApp
    difficulty,  \* Blockchain.difficulty
    chain,       \* Blockchain.chain
    blk,         \* the block mine_block is working on (<<>> when none)
    given,       \* that block as its maker built it, before add_block and mine_block
    caller,      \* who called mine_block: "genesis", "add_block", "cast_vote"
    voters,      \* VotingApp.voters: voter_id -> [name, has_voted]
    candidates,  \* VotingApp.candidates: candidate_id -> [name]
    op,          \* the operation last started
    out,         \* the message the operation last printed, or the value it returned
    tamperedAt,  \* position of the block that was changed from outside, 0 when none
    reminedTo    \* last position mined again after the change, 0 when none

vars == <<pc, app, difficulty, chain, blk, given, caller, voters, candidates, op, out,
          tamperedAt, reminedTo>>

NoBlock == <<>>
Empty == [x \in {} |-> 0]

Init ==
    /\ pc = "new"
    /\ app = FALSE
    /\ difficulty = 0
    /\ chain = <<>>
    /\ blk = NoBlock
    /\ given = NoBlock
    /\ caller = "none"
    /\ voters = Empty
    /\ candidates = Empty
    /\ op = "none"
    /\ out = "none"
    /\ tamperedAt = 0
    /\ reminedTo = 0

\* Blockchain.__init__(difficulty) up to the call of mine_block(genesis)
NewLedger(d, ts) ==
    /\ difficulty' = d
    /\ chain' = <<>>
    /\ given' = Genesis(ts)
    /\ blk' = given'
    /\ caller' = "genesis"
    /\ pc' = "mining"

\* a program that uses the Blockchain class directly
Blockchain_init ==
    /\ pc = "new"
    /\ \E d \in Difficulties, ts \in Times : NewLedger(d, ts)
    /\ app' = FALSE
    /\ op' = "Blockchain"
    /\ UNCHANGED <<voters, candidates, out, tamperedAt, reminedTo>>

AppDifficulty == 3

\* VotingApp.__init__
VotingApp_init ==
    /\ pc = "new"
    /\ \E ts \in Times : NewLedger(AppDifficulty, ts)
    /\ app' = TRUE
    /\ voters' = Empty
    /\ candidates' = Empty
    /\ op' = "VotingApp"
    /\ UNCHANGED <<out, tamperedAt, reminedTo>>

\* one iteration of mine_block that does not find the prefix
mine_retry ==
    /\ pc = "mining"
    /\ ~Mined(blk, difficulty)
    /\ blk' = Bump(blk)
    /\ UNCHANGED <<pc, app, difficulty, chain, given, caller, voters, candidates, op, out,
                   tamperedAt, reminedTo>>

\* faulty variant: the flag left as it was
VotedKeep(vs, id) == vs

\* voter.has_voted = True
Voted(vs, id) == [vs EXCEPT ![id].has_voted = TRUE]

\* the iteration of mine_block that finds the prefix, and the rest of its caller:
\* chain.append(block), and in cast_vote voter.has_voted = True
mine_found ==
    /\ pc = "mining"
    /\ Mined(blk, difficulty)
    /\ chain' = chain_append(chain, Commit(blk))
    /\ voters' = IF caller = "cast_vote"
                  THEN Voted(voters, blk.transactions[1].voter_id)
                  ELSE voters
    /\ out' = IF caller = "cast_vote" THEN "vote_cast" ELSE out
    /\ blk' = NoBlock
    /\ given' = NoBlock
    /\ caller' = "none"
    /\ pc' = "ready"
    /\ UNCHANGED <<app, difficulty, candidates, op, tamperedAt, reminedTo>>

\* the blocks a direct caller hands to add_block
CoreTxs == {<<>>, <<Transaction(<<"a">>, <<"b">>, 1)>>}
CallerHashes == {StrEmpty, Str0}
CallerTimes == {1}

\* Blockchain.add_block(block) up to the call of mine_block(block)
add_block ==
    /\ pc = "ready"
    /\ ~app
    /\ Len(chain) < MaxChain
    /\ \E i \in {0, Len(chain)}, ts \in CallerTimes, txs \in CoreTxs,
          prev \in CallerHashes \cup {chain[Len(chain)].hash}, n \in StartNonces :
            /\ given' = Block(i, ts, txs, prev, n)
            /\ blk' = Linked(given', chain)
    /\ caller' = "add_block"
    /\ pc' = "mining"
    /\ op' = "add_block"
    /\ UNCHANGED <<app, difficulty, chain, voters, candidates, out, tamperedAt, reminedTo>>

\* ------------------------------------------------------------------ VotingApp
Candidate(id, name) == [candidate_id |-> id, name |-> name]
Voter(id, name) == [voter_id |-> id, name |-> name, has_voted |-> FALSE]

\* d[key] = value
Put(d, key, value) == [x \in DOMAIN d \cup {key} |-> IF x = key THEN value ELSE d[x]]

\* faulty variant: the registration without the test for a registered ID
RegistrationNoDup(id, name, registry) ==
    IF id = <<>> THEN "empty_id"
    ELSE IF name = <<>> THEN "empty_name"
    ELSE "added"

\* the tests of add_candidate and add_voter, in their order; "added" when all pass
Registration(id, name, registry) ==
    IF id = <<>> THEN "empty_id"
    ELSE IF id \in DOMAIN registry THEN "duplicate_id"
    ELSE IF name = <<>> THEN "empty_name"
    ELSE "added"

add_candidate ==
    /\ pc = "ready"
    /\ app
    /\ \E rawId \in RawIds, rawName \in RawNames :
          LET candidate_id == clean_id(rawId)
              name == clean_id(rawName)
              result == Registration(candidate_id, name, candidates)
          IN /\ out' = result
             /\ candidates' = IF result = "added"
                               THEN Put(candidates, candidate_id, Candidate(candidate_id, name))
                               ELSE candidates
    /\ op' = "add_candidate"
    /\ UNCHANGED <<pc, app, difficulty, chain, blk, given, caller, voters, tamperedAt, reminedTo>>

add_voter ==
    /\ pc = "ready"
    /\ app
    /\ \E rawId \in RawIds, rawName \in RawNames :
          LET voter_id == clean_id(rawId)
              name == clean_id(rawName)
              result == Registration(voter_id, name, voters)
          IN /\ out' = result
             /\ voters' = IF result = "added"
                           THEN Put(voters, voter_id, Voter(voter_id, name))
                           ELSE voters
    /\ op' = "add_voter"
    /\ UNCHANGED <<pc, app, difficulty, chain, blk, given, caller, candidates, tamperedAt, reminedTo>>

\* faulty variant: cast_vote without the candidate lookup
BallotAnyCandidate(vs, cs, voter_id, candidate_id) ==
    IF DOMAIN vs = {} THEN "no_voters"
    ELSE IF DOMAIN cs = {} THEN "no_candidates"
    ELSE IF voter_id \notin DOMAIN vs THEN "voter_not_found"
    ELSE IF vs[voter_id].has_voted THEN "already_voted"
    ELSE "ok"

\* faulty variant: cast_vote without the has_voted test
BallotNoFlag(vs, cs, voter_id, candidate_id) ==
    IF DOMAIN vs = {} THEN "no_voters"
    ELSE IF DOMAIN cs = {} THEN "no_candidates"
    ELSE IF voter_id \notin DOMAIN vs THEN "voter_not_found"
    ELSE IF candidate_id \notin DOMAIN cs THEN "candidate_not_found"
    ELSE "ok"

\* the tests of cast_vote, in their order; "ok" when all pass
Ballot(vs, cs, voter_id, candidate_id) ==
    IF DOMAIN vs = {} THEN "no_voters"
    ELSE IF DOMAIN cs = {} THEN "no_candidates"
    ELSE IF voter_id \notin DOMAIN vs THEN "voter_not_found"
    ELSE IF vs[voter_id].has_voted THEN "already_voted"
    ELSE IF candidate_id \notin DOMAIN cs THEN "candidate_not_found"
    ELSE "ok"

\* faulty variant: a refused vote for an unknown candidate still marks the voter
cast_vote_rejected_marking ==
    /\ pc = "ready"
    /\ app
    /\ \E rawVoter \in RawIds, rawCand \in RawIds :
          LET voter_id == clean_id(rawVoter)
              result == Ballot(voters, candidates, voter_id, clean_id(rawCand))
          IN /\ result # "ok"
             /\ out' = result
             /\ voters' = IF result = "candidate_not_found"
                           THEN Voted(voters, voter_id)
                           ELSE voters
    /\ op' = "cast_vote"
    /\ UNCHANGED <<pc, app, difficulty, chain, blk, given, caller, candidates, tamperedAt,
                   reminedTo>>

\* cast_vote that returns at one of its tests, before any block is built
cast_vote_rejected ==
    /\ pc = "ready"
    /\ app
    /\ \E rawVoter \in RawIds, rawCand \in RawIds :
          LET result == Ballot(voters, candidates, clean_id(rawVoter), clean_id(rawCand))
          IN /\ result # "ok"
             /\ out' = result
    /\ op' = "cast_vote"
    /\ UNCHANGED <<pc, app, difficulty, chain, blk, given, caller, voters, candidates, tamperedAt, reminedTo>>

\* faulty variant: the index counted from 1
NewBlockFromOne(c, ts, tx) == Block(Len(c) + 1, ts, <<tx>>, c[Len(c)].hash, 0)

\* cast_vote: new_block = Block(index=len(chain), ..., previous_hash=last_block.hash)
NewBlock(c, ts, tx) == Block(Len(c), ts, <<tx>>, c[Len(c)].hash, 0)

\* cast_vote that passes its tests, up to the call of mine_block in add_block
cast_vote ==
    /\ pc = "ready"
    /\ app
    /\ Len(chain) < MaxChain
    /\ \E rawVoter \in RawIds, rawCand \in RawIds, txTime \in Times, blockTime \in Times :
          LET voter_id == clean_id(rawVoter)
              candidate_id == clean_id(rawCand)
              tx == Transaction(voter_id, candidate_id, txTime)
              new_block == NewBlock(chain, blockTime, tx)
          IN /\ Ballot(voters, candidates, voter_id, candidate_id) = "ok"
             /\ given' = new_block
             /\ blk' = Linked(new_block, chain)
    /\ out' = "candidates_listed"
    /\ caller' = "cast_vote"
    /\ pc' = "mining"
    /\ op' = "cast_vote"
    /\ UNCHANGED <<app, difficulty, chain, voters, candidates, tamperedAt, reminedTo>>

print_blockchain ==
    /\ pc = "ready"
    /\ app
    /\ op' = "print_blockchain"
    /\ out' = "blocks"
    /\ UNCHANGED <<pc, app, difficulty, chain, blk, given, caller, voters, candidates, tamperedAt, reminedTo>>

\* faulty variant: a validation that stores each hash it recomputes
validate_chain_repairing ==
    /\ pc = "ready"
    /\ out' = IF is_chain_valid(chain, difficulty) THEN "valid" ELSE "invalid"
    /\ chain' = [i \in 1..Len(chain) |-> Commit(chain[i])]
    /\ op' = "validate_chain"
    /\ UNCHANGED <<pc, app, difficulty, blk, given, caller, voters, candidates, tamperedAt,
                   reminedTo>>

\* VotingApp.validate_chain, or a direct call of Blockchain.is_chain_valid
validate_chain ==
    /\ pc = "ready"
    /\ out' = IF is_chain_valid(chain, difficulty) THEN "valid" ELSE "invalid"
    /\ op' = "validate_chain"
    /\ UNCHANGED <<pc, app, difficulty, chain, blk, given, caller, voters, candidates, tamperedAt, reminedTo>>

\* ------------------------------------------------------------------ tampering
\* the transaction lists that differ from txs in one field of one transaction,
\* or by one transaction more or less
TamperedTxs(txs) ==
    ({[txs EXCEPT ![k].candidate_id = c] : k \in 1..Len(txs), c \in {<<"a">>, <<"b">>}}
     \cup {[txs EXCEPT ![k].voter_id = v] : k \in 1..Len(txs), v \in {<<"a">>, <<"b">>}}
     \cup {[txs EXCEPT ![k].timestamp = 0] : k \in 1..Len(txs)}
     \cup {<<>>, Append(txs, Transaction(<<"b">>, <<"a">>, 0))})
    \ {txs}

ForgedHashes == {StrEmpty, Str0, [hex |-> Zeros(HashLen), of |-> <<>>]}

\* the blocks that differ from b in exactly one field
Tampered(b) ==
    {[b EXCEPT !.index = b.index + 1], [b EXCEPT !.timestamp = 0],
     [b EXCEPT !.nonce = b.nonce + 1]}
    \cup {[b EXCEPT !.transactions = txs] : txs \in TamperedTxs(b.transactions)}
    \cup {[b EXCEPT !.previous_hash = h] : h \in (ForgedHashes \cup {b.hash}) \ {b.previous_hash}}
    \cup {[b EXCEPT !.hash = h] : h \in (ForgedHashes \cup {b.previous_hash}) \ {b.hash}}

\* someone outside the ledger writes one field of one appended block
tamper ==
    /\ pc = "ready"
    /\ tamperedAt = 0
    /\ \E i \in 1..Len(chain) :
          \E b \in Tampered(chain[i]) :
             /\ chain' = [chain EXCEPT ![i] = b]
             /\ tamperedAt' = i
    /\ op' = "tamper"
    /\ UNCHANGED <<pc, app, difficulty, blk, given, caller, voters, candidates, out, reminedTo>>

\* the one who changed the block calls mine_block on it
remine ==
    /\ pc = "ready"
    /\ tamperedAt # 0
    /\ reminedTo = 0
    /\ difficulty <= HashLen
    /\ chain' = [chain EXCEPT ![tamperedAt] = mine_block(chain[tamperedAt], difficulty)]
    /\ reminedTo' = tamperedAt
    /\ op' = "mine_block"
    /\ UNCHANGED <<pc, app, difficulty, blk, given, caller, voters, candidates, out,
                   tamperedAt>>

\* and then links the next block to the one mined again, and mines it too
relink ==
    /\ pc = "ready"
    /\ reminedTo # 0
    /\ reminedTo < Len(chain)
    /\ difficulty <= HashLen
    /\ LET k == reminedTo + 1
       IN /\ chain' = [chain EXCEPT
                         ![k] = mine_block(Linked(chain[k], SubSeq(chain, 1, k - 1)),
                                           difficulty)]
          /\ reminedTo' = k
    /\ op' = "relink"
    /\ UNCHANGED <<pc, app, difficulty, blk, given, caller, voters, candidates, out,
                   tamperedAt>>

\* ------------------------------------------------------------------ specifications
Next ==
    \/ Blockchain_init
    \/ VotingApp_init
    \/ mine_retry
    \/ mine_found
    \/ add_block
    \/ add_candidate
    \/ add_voter
    \/ cast_vote_rejected
    \/ cast_vote
    \/ print_blockchain
    \/ validate_chain

Spec == Init /\ [][Next]_vars

\* the mining loop runs on until it returns: nothing else can take the processor
LiveSpec == Spec /\ WF_vars(mine_retry) /\ WF_vars(mine_found)

\* after the change only the validation is watched
TamperNext ==
    \/ tamperedAt = 0 /\ Next
    \/ tamper
    \/ validate_chain

TamperSpec == Init /\ [][TamperNext]_vars

\* right after an append a block that is not the last is changed, then mined
\* again, then the later blocks are linked and mined again one by one
RemineNext ==
    \/ tamperedAt = 0 /\ Next
    \/ tamper /\ tamperedAt' < Len(chain) /\ op \in {"add_block", "cast_vote"}
    \/ remine
    \/ relink

RemineSpec == Init /\ [][RemineNext]_vars

\* ------------------------------------------------------------------ model sanity
\* a ledger whose difficulty a digest can meet is mined within the exact nonces
NonceFoldUnused ==
    difficulty <= HashLen =>
        /\ pc = "mining" => blk.nonce < NonceCap
        /\ \A i \in 1..Len(chain) : chain[i].nonce < NonceCap

\* ------------------------------------------------------------------ claims
\* C1 (Spec): linkage invariant. After construction and after any sequence of
\* add_block calls, every block but the first has as previous_hash the hash of
\* the block before it.
LinkageInvariant ==
    \A i \in 2..Len(chain) : chain[i].previous_hash = chain[i - 1].hash

\* a direct caller has appended blocks up to the bound
LinkageWitness == pc = "ready" /\ ~app /\ op = "add_block" /\ Len(chain) = MaxChain

\* C2 (Spec): hash consistency. Every block of the chain, genesis included, has a
\* non-empty stored hash equal to compute_hash() of its current fields.
HashConsistency ==
    \A i \in 1..Len(chain) :
        chain[i].hash # StrEmpty /\ chain[i].hash = compute_hash(chain[i])

\* a chain with an appended block that took several nonces to mine
HashConsistencyWitness ==
    pc = "ready" /\ Len(chain) >= 2 /\ \E i \in 2..Len(chain) : chain[i].nonce > 1

\* C3 (Spec): proof of work. The stored hash of every block of the chain, genesis
\* included, starts with `difficulty` characters "0".
ProofOfWork ==
    \A i \in 1..Len(chain) : StartsWith(chain[i].hash, Zeros(difficulty))

\* a chain of several blocks mined at the highest difficulty a digest can meet
ProofOfWorkWitness ==
    pc = "ready" /\ difficulty = HashLen /\ Len(chain) >= 2
    /\ \A i \in 1..Len(chain) : chain[i].hash.hex = Zeros(HashLen)

\* C4 (Spec): an untampered chain validates. Whatever index, transactions and
\* previous_hash the caller put in the appended blocks, is_chain_valid() is true
\* between operations.
UntamperedChainValid == pc = "ready" => is_chain_valid(chain, difficulty)

\* validation returned true on a full chain holding a block with a wrong index
UntamperedChainWitness ==
    /\ op = "validate_chain" /\ out = "valid" /\ ~app /\ Len(chain) = MaxChain
    /\ \E i \in 2..Len(chain) : chain[i].index # i - 1

\* C5 (TamperSpec): tamper detection. Once one field of a block that is not the
\* last has been changed without re-mining, is_chain_valid() is false.
TamperDetected ==
    (tamperedAt # 0 /\ tamperedAt < Len(chain)) => ~is_chain_valid(chain, difficulty)

\* a vote inside the chain was altered and validation then returned false
TamperDetectedWitness ==
    /\ tamperedAt # 0 /\ tamperedAt < Len(chain)
    /\ chain[tamperedAt].transactions # <<>>
    /\ chain[tamperedAt].hash.of[5] # <<to_dict(chain[tamperedAt].transactions[1])>>
    /\ op = "validate_chain" /\ out = "invalid"

\* C6 (Spec): one vote per voter. In a VotingApp no voter_id appears in two
\* transactions of the chain, and cast_vote never starts a block for a voter
\* whose has_voted is true.
VoteOnce ==
    app => \A i, j \in 1..Len(chain) :
             \A k \in 1..Len(chain[i].transactions), l \in 1..Len(chain[j].transactions) :
                chain[i].transactions[k].voter_id = chain[j].transactions[l].voter_id
                    => (i = j /\ k = l)

NoBlockForRepeatVoter ==
    (app /\ pc = "ready" /\ pc' = "mining")
        => ~voters[blk'.transactions[1].voter_id].has_voted

OneVotePerVoter == []VoteOnce /\ [][NoBlockForRepeatVoter]_vars

\* a voter whose vote is in the chain tried to vote again and was turned away
OneVotePerVoterWitness ==
    app /\ pc = "ready" /\ out = "already_voted" /\ Len(chain) >= 2

\* C7 (Spec): genesis property. A freshly constructed ledger of difficulty d has
\* exactly one block, with index 0, no transactions, previous_hash "0" and a hash
\* that starts with d zeros.
GenesisProperty ==
    (pc = "ready" /\ op \in {"Blockchain", "VotingApp"}) =>
        /\ Len(chain) = 1
        /\ chain[1].index = 0
        /\ chain[1].transactions = <<>>
        /\ chain[1].previous_hash = Str0
        /\ StartsWith(chain[1].hash, Zeros(difficulty))

\* a ledger just constructed at the highest difficulty a digest can meet
GenesisWitness ==
    pc = "ready" /\ op = "Blockchain" /\ difficulty = HashLen /\ Len(chain) = 1

\* C8 (Spec): a negative difficulty fails at construction: no ledger with a
\* negative difficulty ever mines or is ready.
NegativeDifficultyRejected == ~(difficulty < 0 /\ pc \in {"mining", "ready"})

\* C9 (LiveSpec): mining always terminates: whenever mine_block has started, it
\* returns and its caller completes.
MiningTerminates == (pc = "mining") ~> (pc = "ready")

\* C10 (TamperSpec): validation is read-only and idempotent. A validation step
\* changes neither the chain nor the difficulty nor the registries, and the
\* verdict it gave is the verdict of the chain it left, so a second call agrees.
VerdictStands ==
    op = "validate_chain" => (out = "valid" <=> is_chain_valid(chain, difficulty))

ValidateFrame ==
    (pc = "ready" /\ op' = "validate_chain") =>
        /\ chain' = chain
        /\ difficulty' = difficulty
        /\ voters' = voters
        /\ candidates' = candidates
        /\ pc' = pc

ValidationReadOnly == []VerdictStands /\ [][ValidateFrame]_vars

\* validation returned false on a chain that was changed from outside
ValidationReadOnlyWitness ==
    op = "validate_chain" /\ out = "invalid" /\ tamperedAt # 0

\* C11 (Spec): add_block is the authoritative linkage point. Whatever
\* previous_hash the caller put in the candidate block, the block add_block
\* mines and appends has as previous_hash the hash of the block that was last
\* in the chain when add_block was called; the chain stays as it was until the
\* append.
AuthoritativeLinkStep ==
    /\ (pc' = "mining" /\ caller' # "genesis") =>
          /\ chain' = chain
          /\ blk'.previous_hash = chain[Len(chain)].hash
    /\ (pc = "mining" /\ pc' = "ready" /\ caller # "genesis") =>
          chain'[Len(chain')].previous_hash = chain[Len(chain)].hash

AuthoritativeLink == [][AuthoritativeLinkStep]_vars

\* a direct caller handed over a block with another previous_hash, for a chain
\* of two blocks or more; add_block has overwritten it and mining is about to end
AuthoritativeLinkWitness ==
    /\ pc = "mining" /\ caller = "add_block" /\ Len(chain) >= 2
    /\ given.previous_hash # chain[Len(chain)].hash
    /\ blk.previous_hash = chain[Len(chain)].hash
    /\ Mined(blk, difficulty)

\* C12 (Spec): append-only. The chain of a constructed ledger is never empty;
\* every completed add_block makes the chain longer by exactly one block, put at
\* the end; every step leaves the blocks already in the chain, and their order,
\* as they were, and the chain grows in no other step.
ChainNeverEmpty == pc = "ready" => Len(chain) >= 1

AppendOnlyStep ==
    /\ Len(chain') >= Len(chain)
    /\ SubSeq(chain', 1, Len(chain)) = chain
    /\ (pc = "mining" /\ pc' = "ready") <=> Len(chain') = Len(chain) + 1
    /\ Len(chain') # Len(chain) => Len(chain') = Len(chain) + 1

AppendOnly == []ChainNeverEmpty /\ [][AppendOnlyStep]_vars

\* a voting application has appended two blocks or more after the genesis block
AppendOnlyWitness ==
    pc = "ready" /\ app /\ op = "cast_vote" /\ out = "vote_cast" /\ Len(chain) > 2

\* C13 (TamperSpec): is_chain_valid() is true exactly when every block but the
\* first has as previous_hash the hash of the block before it, every block
\* (genesis included) has as stored hash its recomputed hash, and every stored
\* hash (genesis included) starts with `difficulty` zeros; validate_chain
\* reports that value.
AllLinked == \A i \in 2..Len(chain) : chain[i].previous_hash = chain[i - 1].hash
AllConsistent == \A i \in 1..Len(chain) : compute_hash(chain[i]) = chain[i].hash
AllWorked == \A i \in 1..Len(chain) : StartsWith(chain[i].hash, Zeros(difficulty))

ValidityIff ==
    /\ pc = "ready" =>
          (is_chain_valid(chain, difficulty) <=> AllLinked /\ AllConsistent /\ AllWorked)
    /\ op = "validate_chain" =>
          (out = "valid" <=> AllLinked /\ AllConsistent /\ AllWorked)

\* validation returned false for a chain of three blocks in which a single
\* check fails at a single position: the recomputed hash of the middle block
ValidityIffWitness ==
    /\ op = "validate_chain" /\ out = "invalid" /\ Len(chain) > 2
    /\ AllLinked /\ AllWorked
    /\ compute_hash(chain[2]) # chain[2].hash
    /\ \A i \in 1..Len(chain) : i # 2 => compute_hash(chain[i]) = chain[i].hash

\* C14 (Spec): mine_block searches the nonces upward from the nonce the block
\* came with, one by one, and stops at the smallest one from there whose hash
\* has the prefix; it changes only nonce and hash; with a difficulty of 0 it
\* stops at once, leaving the nonce as it came.
MiningStart ==
    IF caller = "genesis" THEN given
    ELSE [given EXCEPT !.previous_hash = chain[Len(chain)].hash]

MiningSearch ==
    pc = "mining" =>
        /\ blk.nonce >= MiningStart.nonce
        /\ [blk EXCEPT !.nonce = MiningStart.nonce] = MiningStart
        /\ \A n \in MiningStart.nonce .. blk.nonce - 1 :
              ~StartsWith(compute_hash([MiningStart EXCEPT !.nonce = n]),
                          Zeros(difficulty))

MiningFoundStep ==
    (pc = "mining" /\ pc' = "ready") =>
        LET mined == chain'[Len(chain')]
        IN /\ [mined EXCEPT !.hash = blk.hash] = blk
           /\ mined.hash = compute_hash(mined)
           /\ StartsWith(mined.hash, Zeros(difficulty))
           /\ difficulty = 0 => mined.nonce = MiningStart.nonce

MiningSmallestNonce == []MiningSearch /\ [][MiningFoundStep]_vars

\* a block that came with nonce 1 is about to be stored with a nonce two or
\* more steps further
MiningSmallestNonceWitness ==
    /\ pc = "mining" /\ caller = "add_block"
    /\ given.nonce = 1 /\ blk.nonce > 2 /\ blk.nonce < NonceCap
    /\ Mined(blk, difficulty)

\* C15 (Spec): in the chain of a voting application the genesis block is the
\* only block without transactions, and every other block holds exactly one
\* transaction, whose voter_id and candidate_id were registered when the vote
\* was cast (and are registered ever after).
OneRegisteredVotePerBlock ==
    app =>
        \A i \in 1..Len(chain) :
            IF i = 1 THEN chain[i].transactions = <<>>
            ELSE /\ Len(chain[i].transactions) = 1
                 /\ chain[i].transactions[1].voter_id \in DOMAIN voters
                 /\ chain[i].transactions[1].candidate_id \in DOMAIN candidates

RegisteredWhenCastStep ==
    (pc = "ready" /\ pc' = "mining") =>
        /\ Len(blk'.transactions) = 1
        /\ blk'.transactions[1].voter_id \in DOMAIN voters
        /\ blk'.transactions[1].candidate_id \in DOMAIN candidates

VoteBlocks == []OneRegisteredVotePerBlock /\ [][app => RegisteredWhenCastStep]_vars

\* two voters voted while a candidate nobody voted for is registered too
VoteBlocksWitness ==
    /\ pc = "ready" /\ app /\ Len(chain) > 2
    /\ \E c \in DOMAIN candidates :
          \A i \in 2..Len(chain) : chain[i].transactions[1].candidate_id # c

\* C16 (Spec): duplicate IDs are prevented. add_voter and add_candidate refused
\* for an empty or a registered ID leave their registry as it was; the empty ID
\* is never registered; no step removes or replaces a registered voter or
\* candidate, and a has_voted flag that is true stays true.
RegistryStep ==
    /\ \A id \in DOMAIN voters :
          /\ id \in DOMAIN voters'
          /\ voters'[id].voter_id = voters[id].voter_id
          /\ voters'[id].name = voters[id].name
          /\ voters[id].has_voted => voters'[id].has_voted
    /\ \A id \in DOMAIN candidates :
          id \in DOMAIN candidates' /\ candidates'[id] = candidates[id]
    /\ (pc = "ready" /\ op' \in {"add_voter", "add_candidate"}
           /\ out' \in {"empty_id", "duplicate_id"}) =>
          voters' = voters /\ candidates' = candidates
    /\ (pc = "ready" /\ op' = "add_voter" /\ out' = "added") =>
          \E id \in DOMAIN voters' \ DOMAIN voters : DOMAIN voters' = DOMAIN voters \cup {id}
    /\ (pc = "ready" /\ op' = "add_candidate" /\ out' = "added") =>
          \E id \in DOMAIN candidates' \ DOMAIN candidates :
              DOMAIN candidates' = DOMAIN candidates \cup {id}

NoEmptyId == app => <<>> \notin DOMAIN voters /\ <<>> \notin DOMAIN candidates

NoDuplicateIds == []NoEmptyId /\ [][app => RegistryStep]_vars

\* add_voter was refused for the ID of a voter who has voted
NoDuplicateIdsWitness ==
    /\ pc = "ready" /\ app /\ op = "add_voter" /\ out = "duplicate_id"
    /\ \A id \in DOMAIN voters : voters[id].has_voted

\* C17 (Spec): after every completed operation of the voting application, a
\* registered voter's has_voted is true exactly when the chain holds a
\* transaction with that voter_id, and there are as many blocks after the
\* genesis block as voters whose has_voted is true.
InChain(id) ==
    \E i \in 1..Len(chain) :
        \E k \in 1..Len(chain[i].transactions) : chain[i].transactions[k].voter_id = id

FlagsMatchChain ==
    (pc = "ready" /\ app) =>
        /\ \A id \in DOMAIN voters : voters[id].has_voted <=> InChain(id)
        /\ Len(chain) - 1 = Cardinality({id \in DOMAIN voters : voters[id].has_voted})

\* one voter has voted and another has not
FlagsMatchChainWitness ==
    /\ pc = "ready" /\ app
    /\ \E v, w \in DOMAIN voters : voters[v].has_voted /\ ~voters[w].has_voted

\* C18 (Spec): a refused cast_vote changes nothing. cast_vote returns without
\* a new block whenever no voter or no candidate is registered, the voter ID is
\* unknown, the voter has voted or the candidate ID is unknown, and then the
\* chain, every has_voted flag and both registries are as before; it goes on to
\* add_block only when none of that is the case.
RejectedVoteStep ==
    /\ (pc = "ready" /\ op' = "cast_vote" /\ pc' = "ready") =>
          /\ out' \in {"no_voters", "no_candidates", "voter_not_found",
                       "already_voted", "candidate_not_found"}
          /\ chain' = chain
          /\ voters' = voters
          /\ candidates' = candidates
    /\ (pc = "ready" /\ op' = "cast_vote" /\ pc' = "mining") =>
          LET tx == blk'.transactions[1]
          IN /\ tx.voter_id \in DOMAIN voters
             /\ ~voters[tx.voter_id].has_voted
             /\ tx.candidate_id \in DOMAIN candidates

RejectedVoteChangesNothing == [][app => RejectedVoteStep]_vars

\* a registered voter who has not voted named an unknown candidate
RejectedVoteWitness ==
    /\ pc = "ready" /\ app /\ op = "cast_vote" /\ out = "candidate_not_found"
    /\ \E v \in DOMAIN voters : ~voters[v].has_voted

\* C19 (Spec): in the chain of a voting application every block's index is its
\* position in the chain, counted from 0; add_block and mine_block store the
\* index the caller gave.
IndexIsPosition ==
    app => \A i \in 1..Len(chain) : chain[i].index = i - 1

IndexFromCallerStep ==
    (pc = "mining" /\ pc' = "ready") => chain'[Len(chain')].index = given.index

IndexMatchesPosition == []IndexIsPosition /\ [][IndexFromCallerStep]_vars

\* a voting application appended two blocks, the last with index 2
IndexMatchesPositionWitness ==
    pc = "ready" /\ app /\ Len(chain) > 2 /\ chain[Len(chain)].index = Len(chain) - 1

\* C20 (RemineSpec): mining a changed block again does not hide the change.
\* After a block that is not the last was changed and mined again, and so were
\* some of the blocks after it, each linked to the one before, every block's
\* stored hash is again its recomputed hash and has the zeros; as long as the
\* last block mined again has a hash other than the one its successor still
\* points to (the hash it had before), is_chain_valid() is false, and the check
\* that fails is the successor's linkage. Only when every later block was linked
\* and mined again is the chain valid again, provided the changed block itself
\* still points to the block before it.
ReminedConsistent ==
    \A i \in 1..Len(chain) :
        compute_hash(chain[i]) = chain[i].hash
        /\ StartsWith(chain[i].hash, Zeros(difficulty))

RemineDetected ==
    reminedTo # 0 =>
        /\ ReminedConsistent
        /\ (reminedTo < Len(chain)
               /\ chain[reminedTo].hash # chain[reminedTo + 1].previous_hash) =>
              /\ ~is_chain_valid(chain, difficulty)
              /\ \A i \in (reminedTo + 2)..Len(chain) :
                    chain[i].previous_hash = chain[i - 1].hash
        /\ reminedTo = Len(chain) =>
              (is_chain_valid(chain, difficulty) <=>
                  (tamperedAt = 1
                      \/ chain[tamperedAt].previous_hash = chain[tamperedAt - 1].hash))

\* the first of three blocks was changed and mined again with a difficulty of 1
\* or more; its hash is consistent, has the zeros and is not the hash the
\* second block points to
RemineDetectedWitness ==
    /\ reminedTo = 1 /\ tamperedAt = 1 /\ Len(chain) > 2 /\ difficulty >= 1
    /\ compute_hash(chain[1]) = chain[1].hash
    /\ StartsWith(chain[1].hash, Zeros(difficulty))
    /\ chain[1].hash # chain[2].previous_hash

====
